---- MODULE Spec2Model ----
(***************************************************************************)
(* State-machine model of src/dspp/problem.py:                             *)
(*   - SaddleProblem.__init__ / _split_constraints (constraint partition), *)
(*   - SaddlePointProblem.solve / _solve_DR / initialize_variables /       *)
(*     fix_vars / _validate_saddlepoint (alternating best response).       *)
(* The numerical solver (cvxpy Problem.solve) is an external black box: a  *)
(* call returns a status and, when optimal, new values for the variables   *)
(* of the sub-problem.  Numeric values are kept exact: every value is an   *)
(* integer number of 1/Scale units, so that np.mean of up to MaxIters      *)
(* snapshots is an integer division without remainder.                     *)
(* Every cvxpy Variable is a scalar (size 1).  A constraint is known by    *)
(* its position in the list passed to the constructor; cons_vars gives     *)
(* the set constraint.variables() of each.  The objective is known by the  *)
(* set of variables it refers to (objVars).                                *)
(* Specifications:                                                         *)
(*   Spec        one SaddleProblem construction or one solve,              *)
(*   SpecResolve one SaddlePointProblem object solved several times,       *)
(*   SpecExpr    fix_vars_in_expr on expression trees kept on a heap,      *)
(*   SpecParser  MinimizeMaximize.__init__ and Parser.parse_expr,          *)
(*   SpecSplit   _split_constraints alone, with weakly fair steps.         *)
(***************************************************************************)
EXTENDS Integers, Sequences, FiniteSets, TLC

\* ------------------------------------------------------------------ bounds
MaxIters == 3
MaxVal == 1
MaxCons == 2
MaxSolves == 2
MaxOps == 2

\* ------------------------------------------------------- program constants
AlphaOverride == 2
DefaultAlpha == 1

\* ------------------------------------------------------------- value domain
Var == {"x", "y"}
VarOrder == <<"x", "y">>

\* the value of a Variable that holds none
None == 0 - 1

RECURSIVE Factorial(_)
Factorial(n) == IF n <= 1 THEN 1 ELSE n * Factorial(n - 1)

\* the unit of every numeric value is 1/Scale: a multiple of every history length
\* up to MaxIters, and of 4
Scale == 2 * Factorial(MaxIters)

Val == {i * Scale : i \in 0..MaxVal}

\* the arguments a caller passes to solve: alpha, and eps = 0 or eps = 1/4.
\* Lines 276-284 compute in float64.  For these two tolerances the float comparison
\* of line 284 and the exact one agree on every history over Val of up to
\* MaxIters + 1 snapshots: a difference of aggregate points that equals the
\* tolerance is then a difference of means that float64 holds exactly (integers
\* and quarters), and every other difference is at least 1/12 away from it.  A
\* tolerance such as 1/6 is left out: there the rounding of the means decides
\* the comparison.
AlphaArgs == {DefaultAlpha, AlphaOverride, AlphaOverride + 1}

EpsChoices == {0, Scale \div 4}

\* the statuses the external solver reports
Status == {"optimal", "infeasible", "unbounded"}

\* the lists of constraints, each given by the set of variables it refers to
ConstraintLists == UNION {[1..n -> SUBSET Var] : n \in 0..MaxCons}

VARIABLES entry, pc, error, errSite,
          x_vars, y_vars, cons_vars, constraints,
          x_constraints, y_constraints, n_constraints, con_len, pass_list, idx, passes,
          min_vars, max_vars, objVars,
          max_iters, alpha, eps,
          val, k, min_vars_hist, max_vars_hist, plot_array,
          param, center, weight, constr, status, solverCalls, exit, printed,
          max_vars_pre_validation, min_vars_pre_validation,
          solves_done,
          heap, objective, fixed_obj, fixed_set, call_val,
          expr, minimization_vars, maximization_vars, convex_vars, concave_vars,
          affine_vars, K_repr

exprVars == <<heap, objective, fixed_obj, fixed_set, call_val>>
parserVars == <<expr, minimization_vars, maximization_vars, convex_vars, concave_vars,
                affine_vars, K_repr>>
inputVars == <<entry, x_vars, y_vars, cons_vars, min_vars, max_vars, objVars, solves_done,
               exprVars, parserVars>>
splitVars == <<x_constraints, y_constraints, n_constraints, con_len, pass_list, idx,
               passes>>
argVars == <<max_iters, alpha, eps>>
iterVars == <<k, min_vars_hist, max_vars_hist, plot_array, exit>>
probeVars == <<param, center, weight, constr>>
preVars == <<max_vars_pre_validation, min_vars_pre_validation>>
solveVars == <<argVars, val, iterVars, probeVars, status, printed, preVars>>
vars == <<inputVars, pc, error, errSite, constraints, splitVars, solveVars, solverCalls>>

\* --------------------------------------------------------- sequence helpers
RECURSIVE SeqSum(_)
SeqSum(s) == IF s = <<>> THEN 0 ELSE Head(s) + SeqSum(Tail(s))

Last(s) == s[Len(s)]

\* np.mean(hist, axis=0) of scalar snapshots
Mean(hist) == SeqSum(hist) \div Len(hist)

Abs(n) == IF n < 0 THEN 0 - n ELSE n

RECURSIVE SetMax(_)
SetMax(S) == IF S = {} THEN 0
             ELSE LET e == CHOOSE e \in S : TRUE
                      m == SetMax(S \ {e})
                  IN IF e > m THEN e ELSE m

\* the elements of S as a list, in declaration order
ListOf(S) == SelectSeq(VarOrder, LAMBDA v : v \in S)

\* list.remove(c): drops the first occurrence of c
RECURSIVE Remove(_, _)
Remove(s, c) == IF s = <<>> THEN <<>>
                ELSE IF Head(s) = c THEN Tail(s)
                ELSE <<Head(s)>> \o Remove(Tail(s), c)

\* ---------------------------------------------------------------- raising
Raise(exc, site) ==
    /\ pc' = "raised"
    /\ error' = exc
    /\ errSite' = site

NoRaise == UNCHANGED <<error, errSite>>

\* ----------------------------------------- SaddleProblem._split_constraints

\* a mixed constraint is classified x-side without the assertion of line 133
SplitCaseNoAssert(c_vars) ==
    IF c_vars \cap x_vars # {} THEN "x"
    ELSE IF c_vars \cap y_vars # {} THEN "y"
    ELSE "skip"

\* the branch one constraint takes in the for loop (lines 131-139)
SplitCase(c_vars) ==
    IF c_vars \cap x_vars # {}
    THEN (IF c_vars \cap y_vars # {} THEN "assert" ELSE "x")
    ELSE IF c_vars \cap y_vars # {}
         THEN (IF c_vars \cap x_vars # {} THEN "assert" ELSE "y")
         ELSE "skip"

\* lines 122-126
SplitStart ==
    /\ pc = "split_start"
    /\ n_constraints' = Len(constraints)
    /\ x_constraints' = <<>>
    /\ y_constraints' = <<>>
    /\ pc' = "split_while"
    /\ NoRaise
    /\ UNCHANGED <<inputVars, constraints, con_len, pass_list, idx, passes, solveVars,
                   solverCalls>>

\* lines 128-130: the while test, and the copy the for loop iterates over;
\* passes counts the passes begun
SplitWhile ==
    /\ pc = "split_while"
    /\ IF constraints # <<>>
       THEN /\ con_len' = Len(constraints)
            /\ pass_list' = constraints
            /\ idx' = 1
            /\ passes' = passes + 1
            /\ pc' = "split_for"
       ELSE /\ pc' = "split_return"
            /\ UNCHANGED <<con_len, pass_list, idx, passes>>
    /\ NoRaise
    /\ UNCHANGED <<inputVars, constraints, x_constraints, y_constraints, n_constraints,
                   solveVars, solverCalls>>

\* lines 130-139: one turn of the for loop
SplitFor ==
    /\ pc = "split_for"
    /\ LET c == pass_list[idx]
           branch == SplitCase(cons_vars[c])
           next_pc == IF idx = Len(pass_list) THEN "split_pass_end" ELSE "split_for"
       IN CASE branch = "assert" ->
                 /\ Raise("AssertionError", "split_for")
                 /\ UNCHANGED <<constraints, x_constraints, y_constraints, idx>>
            [] branch = "x" ->
                 /\ x_constraints' = Append(x_constraints, c)
                 /\ constraints' = Remove(constraints, c)
                 /\ idx' = idx + 1
                 /\ pc' = next_pc
                 /\ NoRaise
                 /\ UNCHANGED y_constraints
            [] branch = "y" ->
                 /\ y_constraints' = Append(y_constraints, c)
                 /\ constraints' = Remove(constraints, c)
                 /\ idx' = idx + 1
                 /\ pc' = next_pc
                 /\ NoRaise
                 /\ UNCHANGED x_constraints
            [] OTHER ->
                 /\ idx' = idx + 1
                 /\ pc' = next_pc
                 /\ NoRaise
                 /\ UNCHANGED <<constraints, x_constraints, y_constraints>>
    /\ UNCHANGED <<inputVars, n_constraints, con_len, pass_list, passes, solveVars,
                   solverCalls>>

\* a pass that removed nothing is not noticed
NoProgressNever == FALSE

\* line 141: the pass removed no constraint from the work list
NoProgress == con_len = Len(constraints)

\* lines 141-142
SplitPassEnd ==
    /\ pc = "split_pass_end"
    /\ IF NoProgress
       THEN Raise("ValueError", "split_pass_end")
       ELSE pc' = "split_while" /\ NoRaise
    /\ UNCHANGED <<inputVars, constraints, splitVars, solveVars, solverCalls>>

\* lines 144-146
SplitReturn ==
    /\ pc = "split_return"
    /\ IF /\ Len(x_constraints) + Len(y_constraints) = n_constraints
          /\ x_vars \cap y_vars = {}
       THEN pc' = "split_done" /\ NoRaise
       ELSE Raise("AssertionError", "split_return")
    /\ UNCHANGED <<inputVars, constraints, splitVars, solveVars, solverCalls>>

\* lines 109-116: the partition is handed to the reformulation
Reformulate ==
    /\ pc = "split_done"
    /\ pc' = "constructed"
    /\ NoRaise
    /\ UNCHANGED <<inputVars, constraints, splitVars, solveVars, solverCalls>>


\* ------------------------------------------------ SaddlePointProblem.fix_vars

\* line 191: the declared variables that are not fixed
NonFixed(fixed_vars) == (min_vars \cup max_vars) \ fixed_vars

\* a constraint that refers to no declared variable is skipped instead of raising
FixCaseOrphanDropped(constraint_vars, fixed_vars) ==
    IF fixed_vars \cap constraint_vars # {}
    THEN (IF NonFixed(fixed_vars) \cap constraint_vars # {} THEN "assert" ELSE "drop")
    ELSE IF NonFixed(fixed_vars) \cap constraint_vars # {}
         THEN (IF fixed_vars \cap constraint_vars # {} THEN "assert" ELSE "keep")
         ELSE "drop"

\* lines 198-205: the branch one constraint takes
FixCase(constraint_vars, fixed_vars) ==
    IF fixed_vars \cap constraint_vars # {}
    THEN (IF NonFixed(fixed_vars) \cap constraint_vars # {} THEN "assert" ELSE "drop")
    ELSE IF NonFixed(fixed_vars) \cap constraint_vars # {}
         THEN (IF fixed_vars \cap constraint_vars # {} THEN "assert" ELSE "keep")
         ELSE "value"

\* the constraints of the fixed side are returned as well
RECURSIVE FixLoopKeepsAll(_, _, _)
FixLoopKeepsAll(i, fixed_vars, relevant) ==
    IF i > Len(constraints) THEN [err |-> "none", relevant |-> relevant]
    ELSE LET branch == FixCase(cons_vars[constraints[i]], fixed_vars)
         IN CASE branch = "assert" -> [err |-> "AssertionError", relevant |-> relevant]
              [] branch = "value" -> [err |-> "ValueError", relevant |-> relevant]
              [] OTHER ->
                    FixLoopKeepsAll(i + 1, fixed_vars, Append(relevant, constraints[i]))

\* lines 196-205: the loop over self.constraints, stopping at the first raise
RECURSIVE FixLoop(_, _, _)
FixLoop(i, fixed_vars, relevant) ==
    IF i > Len(constraints) THEN [err |-> "none", relevant |-> relevant]
    ELSE LET branch == FixCase(cons_vars[constraints[i]], fixed_vars)
         IN CASE branch = "assert" -> [err |-> "AssertionError", relevant |-> relevant]
              [] branch = "value" -> [err |-> "ValueError", relevant |-> relevant]
              [] branch = "keep" ->
                    FixLoop(i + 1, fixed_vars, Append(relevant, constraints[i]))
              [] OTHER -> FixLoop(i + 1, fixed_vars, relevant)

\* the Parameter of line 216 holds the mean of the variable's history
FixedValueAveraged(v) ==
    IF v \in DOMAIN max_vars_hist THEN Mean(max_vars_hist[v])
    ELSE IF v \in DOMAIN min_vars_hist THEN Mean(min_vars_hist[v])
    ELSE val[v]

\* lines 215-217: the Parameter that replaces a fixed variable holds its value
FixedValue(v) == val[v]

\* line 189: the fixed variables are one of the two declared sides
FixedSideOk(fixed_vars) == fixed_vars = min_vars \/ fixed_vars = max_vars

\* lines 187-207.  params: the Parameters that replace the fixed variables of the
\* objective; objFree: the variables the fixed objective still refers to.  When the
\* assertion of line 189 fails nothing else is computed
fix_vars(fixed_vars) ==
    LET r == IF FixedSideOk(fixed_vars)
             THEN FixLoop(1, fixed_vars, <<>>)
             ELSE [err |-> "AssertionError", relevant |-> <<>>]
        replaced == IF FixedSideOk(fixed_vars) THEN objVars \cap fixed_vars ELSE {}
    IN [err |-> r.err,
        relevant |-> r.relevant,
        params |-> [v \in replaced |-> FixedValue(v)],
        objFree |-> objVars \ fixed_vars]

ConsVarsOf(relevant) == UNION {cons_vars[relevant[i]] : i \in DOMAIN relevant}

\* ------------------------------------------------------- the external solver

\* lines 296-298, 304-305: zero-weighted side variables plus the side's constraints
InitProblemVars(side_vars, relevant) == side_vars \cup ConsVarsOf(relevant)

\* lines 243-245, 261-263: fixed objective, proximal terms, relevant constraints
StepProblemVars(fx, free_vars) == fx.objFree \cup free_vars \cup ConsVarsOf(fx.relevant)

\* lines 313-314, 322-323: fixed objective and relevant constraints, no proximal term
ValidationProblemVars(fx) == fx.objFree \cup ConsVarsOf(fx.relevant)

\* a free variable that enters the sub-problem through its proximal term only:
\* the optimum leaves it at the proximal centre
ProxOnly(fx, free_vars) == free_vars \ (fx.objFree \cup ConsVarsOf(fx.relevant))

\* the values a solve writes into the variables of its problem: an optimal point,
\* or None for every variable when the status is not optimal
SolverValues(st, problem_vars, pinned) ==
    IF st = "optimal"
    THEN {f \in [problem_vars -> Val] : \A v \in pinned : f[v] = val[v]}
    ELSE {[v \in problem_vars |-> None]}

\* the status is never checked
AssertFailsNever(st) == FALSE

\* assert problem.status == cp.OPTIMAL  (lines 247, 265, 300, 307, 316, 325)
AssertFails(st) == st # "optimal"

\* lines 316, 325: the assertions of _validate_saddlepoint
ValidationAssertFails(st) == AssertFails(st)

\* the assertion that follows the solve at `site`
Aborts(st, site) ==
    IF site \in {"validate_max", "validate_min"}
    THEN ValidationAssertFails(st)
    ELSE AssertFails(st)

\* problem.solve() followed by the assertion on its status
\* and, when it passes, by the write-back `restored` (lines 319-320, 328-329)
SolverCall(problem_vars, pinned, restored, ok_pc, site) ==
    \E st \in Status :
        /\ status' = st
        /\ solverCalls' = solverCalls + 1
        /\ \E new \in SolverValues(st, problem_vars, pinned) :
              val' = [v \in Var |->
                        IF v \in DOMAIN restored /\ ~Aborts(st, site) THEN restored[v]
                        ELSE IF v \in problem_vars THEN new[v]
                        ELSE val[v]]
        /\ IF Aborts(st, site)
           THEN Raise("AssertionError", site)
           ELSE pc' = ok_pc /\ NoRaise

NoParams == [v \in {} |-> 0]

\* lines 109-116: the variables of the program the reformulation returns, taken
\* to be those of the objective and of the two constraint halves it is given
SaddleProblemVariables ==
    x_vars \cup y_vars \cup ConsVarsOf(x_constraints) \cup ConsVarsOf(y_constraints)

\* lines 148-149: the one numeric solve of the reformulated program.  It records the
\* status and writes the variables of the program; the status is not asserted on
SaddleProblemSolve ==
    /\ pc = "constructed"
    /\ solverCalls' = solverCalls + 1
    /\ \E st \in Status :
          /\ status' = st
          /\ \E new \in SolverValues(st, SaddleProblemVariables, {}) :
                val' = [v \in Var |->
                          IF v \in SaddleProblemVariables THEN new[v] ELSE val[v]]
    /\ pc' = "solved"
    /\ NoRaise
    /\ UNCHANGED <<inputVars, constraints, splitVars, argVars, iterVars, probeVars,
                   printed, preVars>>

\* ------------------------------------------------- SaddlePointProblem.solve

\* lines 181-183, 228: solve(method='DR', max_iters, alpha, eps) binds its arguments
SolveCall ==
    /\ pc = "ready"
    /\ \E mi \in 1..MaxIters, al \in AlphaArgs, ep \in EpsChoices :
          /\ max_iters' = mi
          /\ alpha' = al
          /\ eps' = ep
    /\ pc' = "solve_entry"
    /\ NoRaise
    /\ UNCHANGED <<inputVars, constraints, splitVars, val, iterVars, probeVars, status,
                   printed, preVars, solverCalls>>

\* line 229: alpha = 2
AlphaUsed(passed) == AlphaOverride

\* line 229, before initialize_variables is called (line 231)
OverrideAlpha ==
    /\ pc = "solve_entry"
    /\ alpha' = AlphaUsed(alpha)
    /\ pc' = "init_min"
    /\ NoRaise
    /\ UNCHANGED <<inputVars, constraints, splitVars, max_iters, eps, val, iterVars,
                   probeVars, status, printed, preVars, solverCalls>>

\* lines 294-300: feasibility solve of the minimizer side
InitMin ==
    /\ pc = "init_min"
    /\ LET fx == fix_vars(max_vars)
       IN IF fx.err # "none"
          THEN /\ Raise(fx.err, "fix_vars")
               /\ UNCHANGED <<val, status, solverCalls, constr>>
          ELSE /\ constr' = fx.relevant
               /\ SolverCall(InitProblemVars(min_vars, fx.relevant), {}, NoParams,
                             "init_max", "init_min")
    /\ UNCHANGED <<inputVars, constraints, splitVars, argVars, iterVars, param, center,
                   weight, printed, preVars>>

\* lines 302-307: feasibility solve of the maximizer side
InitMax ==
    /\ pc = "init_max"
    /\ LET fx == fix_vars(min_vars)
       IN IF fx.err # "none"
          THEN /\ Raise(fx.err, "fix_vars")
               /\ UNCHANGED <<val, status, solverCalls, constr>>
          ELSE /\ constr' = fx.relevant
               /\ SolverCall(InitProblemVars(max_vars, fx.relevant), {}, NoParams,
                             "alloc", "init_max")
    /\ UNCHANGED <<inputVars, constraints, splitVars, argVars, iterVars, param, center,
                   weight, printed, preVars>>

\* self.variables (line 170): the variables of the objective and the constraints
ProblemVariables == objVars \cup ConsVarsOf(constraints)

\* line 233: plot_array = np.zeros((max_iters - 1, sum of sizes)); line 235: k = 0
AllocatePlotArray ==
    /\ pc = "alloc"
    /\ plot_array' = [r \in 1..(max_iters - 1) |->
                         [c \in 1..Cardinality(ProblemVariables) |-> 0]]
    /\ k' = 0
    /\ pc' = "max_step"
    /\ NoRaise
    /\ UNCHANGED <<inputVars, constraints, splitVars, argVars, val, min_vars_hist,
                   max_vars_hist, exit, probeVars, status, printed, preVars, solverCalls>>

\* lines 243, 261: sum_squares(v - v.value)
ProxCenter(v) == val[v]

\* the new snapshot is put in front of the earlier ones
RecordPrepend(hist, side_vars, new_val) ==
    IF k = 0 THEN [v \in side_vars |-> <<new_val[v]>>]
    ELSE [v \in side_vars |-> <<new_val[v]>> \o hist[v]]

\* lines 249-253, 267-271: first snapshot, or append
Record(hist, side_vars, new_val) ==
    IF k = 0 THEN [v \in side_vars |-> <<new_val[v]>>]
    ELSE [v \in side_vars |-> Append(hist[v], new_val[v])]

\* lines 242-253: maximizer best response and its snapshot
MaxStep ==
    /\ pc = "max_step"
    /\ LET fx == fix_vars(min_vars)
       IN IF fx.err # "none"
          THEN /\ Raise(fx.err, "fix_vars")
               /\ UNCHANGED <<val, status, solverCalls, probeVars, max_vars_hist>>
          ELSE /\ param' = fx.params
               /\ center' = [v \in max_vars |-> ProxCenter(v)]
               /\ weight' = alpha
               /\ constr' = fx.relevant
               /\ SolverCall(StepProblemVars(fx, max_vars), ProxOnly(fx, max_vars),
                             NoParams, "min_step", "max_step")
               /\ max_vars_hist' = IF AssertFails(status') THEN max_vars_hist
                                   ELSE Record(max_vars_hist, max_vars, val')
    /\ UNCHANGED <<inputVars, constraints, splitVars, argVars, k, min_vars_hist,
                   plot_array, exit, printed, preVars>>

\* lines 260-271: minimizer best response and its snapshot
MinStep ==
    /\ pc = "min_step"
    /\ LET fx == fix_vars(max_vars)
       IN IF fx.err # "none"
          THEN /\ Raise(fx.err, "fix_vars")
               /\ UNCHANGED <<val, status, solverCalls, probeVars, min_vars_hist>>
          ELSE /\ param' = fx.params
               /\ center' = [v \in min_vars |-> ProxCenter(v)]
               /\ weight' = alpha
               /\ constr' = fx.relevant
               /\ SolverCall(StepProblemVars(fx, min_vars), ProxOnly(fx, min_vars),
                             NoParams, "check", "min_step")
               /\ min_vars_hist' = IF AssertFails(status') THEN min_vars_hist
                                   ELSE Record(min_vars_hist, min_vars, val')
    /\ UNCHANGED <<inputVars, constraints, splitVars, argVars, k, max_vars_hist,
                   plot_array, exit, printed, preVars>>

\* lines 276-277: the aggregate point, minimizer means then maximizer means
CurrentArray ==
    LET mins == ListOf(min_vars)
        maxs == ListOf(max_vars)
    IN [i \in 1..Len(mins) |-> Mean(min_vars_hist[mins[i]])]
       \o [i \in 1..Len(maxs) |-> Mean(max_vars_hist[maxs[i]])]

\* numpy row assignment: the shapes agree, or a length-1 array is broadcast
RowAssignOk(row, arr) == Len(arr) = Len(row) \/ Len(arr) = 1

RowAssign(row, arr) ==
    IF Len(arr) = Len(row) THEN arr ELSE [i \in 1..Len(row) |-> arr[1]]

\* np.linalg.norm(a - b, np.inf)
InfNorm(a, b) == SetMax({Abs(a[i] - b[i]) : i \in DOMAIN a})

\* the stopping test passes only below the tolerance
StopTestStrict(delta) == delta < eps

\* line 284: delta <= eps
StopTest(delta) == delta <= eps

\* line 281: if k > 1
FirstUntested == 1

\* the stopping test is applied as soon as an aggregate point is computed
TestAppliedFromOne(kk) == kk > 0

\* line 281: the iterations in which the stopping test is applied
TestApplied(kk) == kk > FirstUntested

\* arr[i] of a numpy array with Len(arr) rows, i counted from 0; a negative i
\* counts from the end
PyRow(arr, i) == IF i < 0 THEN arr[Len(arr) + i + 1] ELSE arr[i + 1]

\* the loop runs one iteration more: range(max_iters + 1)
LoopNextOneMore ==
    IF k + 1 <= max_iters
    THEN k' = k + 1 /\ pc' = "max_step" /\ UNCHANGED exit
    ELSE k' = k /\ pc' = "finalize" /\ exit' = "exhausted"

\* line 235: the next value of range(max_iters), or the end of the loop
LoopNext ==
    IF k + 1 < max_iters
    THEN k' = k + 1 /\ pc' = "max_step" /\ UNCHANGED exit
    ELSE k' = k /\ pc' = "finalize" /\ exit' = "exhausted"

\* lines 273-285: aggregate point, plot_array row, stopping criterion
CheckStop ==
    /\ pc = "check"
    /\ IF k > 0
       THEN LET current_array == CurrentArray
            IN IF ~RowAssignOk(PyRow(plot_array, k - 1), current_array)
               THEN /\ Raise("ValueError", "plot_array")
                    /\ UNCHANGED <<plot_array, k, exit>>
               ELSE /\ plot_array' =
                          [plot_array EXCEPT ![k] = RowAssign(plot_array[k], current_array)]
                    /\ NoRaise
                    /\ IF /\ TestApplied(k)
                          /\ StopTest(InfNorm(PyRow(plot_array', k - 2), current_array))
                       THEN k' = k /\ pc' = "finalize" /\ exit' = "break"
                       ELSE LoopNext
       ELSE /\ LoopNext
            /\ NoRaise
            /\ UNCHANGED plot_array
    /\ UNCHANGED <<inputVars, constraints, splitVars, argVars, val, min_vars_hist,
                   max_vars_hist, probeVars, status, printed, preVars, solverCalls>>

\* the variable keeps its last iterate
FinalValueLast(hist) == Last(hist)

\* lines 288, 290: np.mean(hist, axis=0)
FinalValue(hist) == Mean(hist)

\* lines 287-290: minimizer values first, maximizer values second
Finalize ==
    /\ pc = "finalize"
    /\ val' = [v \in Var |->
                 IF v \in max_vars THEN FinalValue(max_vars_hist[v])
                 ELSE IF v \in min_vars THEN FinalValue(min_vars_hist[v])
                 ELSE val[v]]
    /\ pc' = "validate_max"
    /\ NoRaise
    /\ UNCHANGED <<inputVars, constraints, splitVars, argVars, iterVars, probeVars,
                   status, printed, preVars, solverCalls>>

\* lines 319-320, 328-329: the pre-validation values are written back
Restored(pre) == pre

\* lines 310-320: maximizer re-solve without proximal term
ValidateMax ==
    /\ pc = "validate_max"
    /\ max_vars_pre_validation' = [v \in max_vars |-> val[v]]
    /\ min_vars_pre_validation' = [v \in min_vars |-> val[v]]
    /\ LET fx == fix_vars(min_vars)
       IN IF fx.err # "none"
          THEN /\ Raise(fx.err, "fix_vars")
               /\ UNCHANGED <<val, status, solverCalls, param, constr>>
          ELSE /\ param' = fx.params
               /\ constr' = fx.relevant
               /\ SolverCall(ValidationProblemVars(fx), {},
                             Restored(max_vars_pre_validation'),
                             "validate_min", "validate_max")
    /\ UNCHANGED <<inputVars, constraints, splitVars, argVars, iterVars, center, weight,
                   printed>>

\* lines 322-334: minimizer re-solve without proximal term, and the gap report
ValidateMin ==
    /\ pc = "validate_min"
    /\ LET fx == fix_vars(max_vars)
       IN IF fx.err # "none"
          THEN /\ Raise(fx.err, "fix_vars")
               /\ UNCHANGED <<val, status, solverCalls, param, constr, printed>>
          ELSE /\ param' = fx.params
               /\ constr' = fx.relevant
               /\ SolverCall(ValidationProblemVars(fx), {},
                             Restored(min_vars_pre_validation),
                             "done", "validate_min")
               /\ printed' = ~Aborts(status', "validate_min")
    /\ UNCHANGED <<inputVars, constraints, splitVars, argVars, iterVars, center, weight,
                   preVars>>

\* ------------------------------------------------------------ specification
\* min_vars is non-empty: up to renaming it holds "x".  max_vars is any non-empty
\* list; nothing makes the two disjoint, and a variable may be in neither
MinChoices == {S \in SUBSET Var : "x" \in S}
MaxChoices == SUBSET Var \ {{}}

IdleSplit ==
    /\ x_constraints = <<>> /\ y_constraints = <<>> /\ n_constraints = 0
    /\ con_len = 0 /\ pass_list = <<>> /\ idx = 0 /\ passes = 0

IdleSolve ==
    /\ max_iters = 0 /\ alpha = 0 /\ eps = 0
    /\ val = [v \in Var |-> None]
    /\ k = 0 /\ min_vars_hist = <<>> /\ max_vars_hist = <<>> /\ plot_array = <<>>
    /\ exit = "running"
    /\ param = NoParams /\ center = NoParams /\ weight = 0 /\ constr = <<>>
    /\ status = "none" /\ printed = FALSE
    /\ max_vars_pre_validation = NoParams /\ min_vars_pre_validation = NoParams

\* no expression tree is under study
IdleExpr ==
    /\ heap = <<>> /\ objective = 0 /\ fixed_obj = 0 /\ fixed_set = {}
    /\ call_val = NoParams

\* an argument that was not passed (None)
NotGiven == [given |-> FALSE, vars |-> {}]

NoExpr == [type |-> "none", name |-> "none", scalar |-> TRUE]

\* no representation has been built
NoRepr ==
    [builder |-> "none", f |-> "none", t |-> "none", x |-> "none", y |-> "none",
     constraints |-> <<>>]

\* no MinimizeMaximize object is under construction
IdleParser ==
    /\ expr = NoExpr /\ minimization_vars = NotGiven /\ maximization_vars = NotGiven
    /\ convex_vars = {} /\ concave_vars = {} /\ affine_vars = {} /\ K_repr = NoRepr

\* SaddleProblem(objective, constraints): lines 98-109
InitSaddleProblem ==
    /\ entry = "SaddleProblem"
    /\ x_vars \in SUBSET Var
    /\ y_vars \in SUBSET Var
    /\ min_vars = {} /\ max_vars = {} /\ objVars = {}
    /\ pc = "split_start"

\* SaddlePointProblem(objective, constraints, min_vars, max_vars): lines 154-166,
\* both variable lists non-empty (lines 224-226)
InitSaddlePointProblem ==
    /\ entry = "SaddlePointProblem"
    /\ min_vars \in MinChoices
    /\ max_vars \in MaxChoices
    /\ objVars \in SUBSET Var
    /\ x_vars = {} /\ y_vars = {}
    /\ pc = "ready"

Init ==
    /\ cons_vars \in ConstraintLists
    /\ constraints = [i \in DOMAIN cons_vars |-> i]
    /\ error = "none" /\ errSite = "none"
    /\ solverCalls = 0
    /\ solves_done = 0
    /\ IdleSplit
    /\ IdleSolve
    /\ IdleExpr
    /\ IdleParser
    /\ (InitSaddleProblem \/ InitSaddlePointProblem)

Next ==
    \/ SplitStart
    \/ SplitWhile
    \/ SplitFor
    \/ SplitPassEnd
    \/ SplitReturn
    \/ Reformulate
    \/ SaddleProblemSolve
    \/ SolveCall
    \/ OverrideAlpha
    \/ InitMin
    \/ InitMax
    \/ AllocatePlotArray
    \/ MaxStep
    \/ MinStep
    \/ CheckStop
    \/ Finalize
    \/ ValidateMax
    \/ ValidateMin

Spec == Init /\ [][Next]_vars

\* ------------------------------------------- a problem object solved repeatedly

\* solve returns to its caller (line 183): the locals of _solve_DR and of
\* _validate_saddlepoint are gone, the Variables keep their values; the caller may
\* call solve on the same object again
SolveReturns ==
    /\ pc = "done"
    /\ solves_done + 1 < MaxSolves
    /\ solves_done' = solves_done + 1
    /\ pc' = "ready"
    /\ max_iters' = 0 /\ alpha' = 0 /\ eps' = 0
    /\ k' = 0 /\ min_vars_hist' = <<>> /\ max_vars_hist' = <<>> /\ plot_array' = <<>>
    /\ exit' = "running"
    /\ param' = NoParams /\ center' = NoParams /\ weight' = 0 /\ constr' = <<>>
    /\ status' = "none" /\ printed' = FALSE
    /\ max_vars_pre_validation' = NoParams /\ min_vars_pre_validation' = NoParams
    /\ NoRaise
    /\ UNCHANGED <<entry, x_vars, y_vars, cons_vars, min_vars, max_vars, objVars,
                   exprVars, parserVars, constraints, splitVars, val, solverCalls>>

\* a two-player problem in which every declared variable is in the objective,
\* without constraints or with one constraint on the maximizer
InitResolve ==
    /\ cons_vars \in {<<>>, <<{"y"}>>}
    /\ constraints = [i \in DOMAIN cons_vars |-> i]
    /\ error = "none" /\ errSite = "none"
    /\ solverCalls = 0
    /\ solves_done = 0
    /\ IdleSplit
    /\ IdleSolve
    /\ IdleExpr
    /\ IdleParser
    /\ entry = "SaddlePointProblem"
    /\ min_vars = {"x"}
    /\ max_vars = {"y"}
    /\ objVars = {"x", "y"}
    /\ x_vars = {} /\ y_vars = {}
    /\ pc = "ready"

NextResolve ==
    \/ SolveCall
    \/ OverrideAlpha
    \/ InitMin
    \/ InitMax
    \/ AllocatePlotArray
    \/ MaxStep
    \/ MinStep
    \/ CheckStop
    \/ Finalize
    \/ ValidateMax
    \/ ValidateMin
    \/ SolveReturns

SpecResolve == InitResolve /\ [][NextResolve]_vars

\* ------------------------------------ SaddlePointProblem.fix_vars_in_expr
\* An expression tree is a set of objects on a heap: heap[n] is the object with
\* identity n and heap[n].args the identities of its children.  A Variable's value is
\* val[name]; a Constant or Parameter carries its value itself.

\* the variables that carry the nonneg attribute
NonnegVars == {"y"}

VariableNode(v) ==
    [kind |-> "Variable", name |-> v, shape |-> <<>>,
     attributes |-> (IF v \in NonnegVars THEN "nonneg" ELSE "none"),
     value |-> None, args |-> <<>>]

ConstantNode ==
    [kind |-> "Constant", name |-> "const", shape |-> <<>>, attributes |-> "none",
     value |-> Scale, args |-> <<>>]

AtomNode(children) ==
    [kind |-> "Atom", name |-> "atom", shape |-> <<>>, attributes |-> "none",
     value |-> None, args |-> children]

\* the leaves every heap starts with: the two Variables and a Constant
LeafNodes == <<VariableNode("x"), VariableNode("y"), ConstantNode>>

\* the argument lists of a new atom over the objects 1..n: one or two children, one
\* of them the previous atom when there is one
ArgLists(n, prev) ==
    {a \in [1..1 -> 1..n] \cup [1..2 -> 1..n] :
        prev = 0 \/ \E i \in DOMAIN a : a[i] = prev}

RECURSIVE HeapsWith(_)
HeapsWith(m) ==
    IF m = 0 THEN {LeafNodes}
    ELSE UNION {{Append(h, AtomNode(a)) :
                    a \in ArgLists(Len(h), IF m = 1 THEN 0 ELSE Len(h))} :
                h \in HeapsWith(m - 1)}

\* line 211, expr.copy(), returns the object itself
NodeCopySelf(h, e) == [heap |-> h, id |-> e]

\* line 211, expr.copy(): a leaf is returned as it is, an atom is rebuilt as a new
\* object of the same kind over the same children
NodeCopy(h, e) ==
    IF h[e].args = <<>> THEN [heap |-> h, id |-> e]
    ELSE [heap |-> Append(h, h[e]), id |-> Len(h) + 1]

\* no leaf is taken for a variable to fix
ReplacesNoLeaf(node, variables) == FALSE

\* lines 214-215: isinstance(expr_copy, cp.Variable) and {expr_copy} & set(variables)
ReplacesLeaf(node, variables) == node.kind = "Variable" /\ node.name \in variables

\* lines 216-217: cp.Parameter(shape, value=expr_copy.value, **attributes)
ParameterOf(node) ==
    [kind |-> "Parameter", name |-> "param", shape |-> node.shape,
     attributes |-> node.attributes, value |-> val[node.name], args |-> <<>>]

\* lines 210-222, on heap h: the heap after the call and the object returned
RECURSIVE fix_vars_in_expr(_, _, _)
RECURSIVE FixArgs(_, _, _, _)
fix_vars_in_expr(h, e, variables) ==
    LET copied == NodeCopy(h, e)
        h1 == copied.heap
        expr_copy == copied.id
    IN IF Len(h1[expr_copy].args) = 0
       THEN IF ReplacesLeaf(h1[expr_copy], variables)
            THEN [heap |-> Append(h1, ParameterOf(h1[expr_copy])), root |-> Len(h1) + 1]
            ELSE [heap |-> h1, root |-> expr_copy]
       ELSE LET r == FixArgs(h1, h1[expr_copy].args, variables, <<>>)
            IN [heap |-> [r.heap EXCEPT ![expr_copy].args = r.roots],
                root |-> expr_copy]

\* lines 220-221: the list comprehension over expr_copy.args, left to right
FixArgs(h, args, variables, done) ==
    IF args = <<>> THEN [heap |-> h, roots |-> done]
    ELSE LET r == fix_vars_in_expr(h, Head(args), variables)
         IN FixArgs(r.heap, Tail(args), variables, Append(done, r.root))

mainVars == <<x_vars, y_vars, cons_vars, min_vars, max_vars, objVars, solves_done,
              constraints, splitVars, argVars, iterVars, probeVars, status, printed,
              preVars, solverCalls>>

\* a call fix_vars_in_expr(objective, variables), lines 194 and 210-222
FixVarsInExpr ==
    /\ pc \in {"expr_ready", "expr_written"}
    /\ \E variables \in SUBSET Var :
          LET r == fix_vars_in_expr(heap, objective, variables)
          IN /\ heap' = r.heap
             /\ fixed_obj' = r.root
             /\ fixed_set' = variables
    /\ call_val' = val
    /\ pc' = IF pc = "expr_ready" THEN "expr_fixed" ELSE "expr_refixed"
    /\ NoRaise
    /\ UNCHANGED <<entry, objective, val, parserVars, mainVars>>

\* a later solve writes new values into the Variables (lines 246, 264)
WriteValues ==
    /\ pc = "expr_fixed"
    /\ val' \in [Var -> Val] \ {val}
    /\ pc' = "expr_written"
    /\ NoRaise
    /\ UNCHANGED <<entry, exprVars, parserVars, mainVars>>

\* an objective expression over the Variables x and y, each holding a value
InitExpr ==
    /\ entry = "fix_vars_in_expr"
    /\ heap \in UNION {HeapsWith(m) : m \in 0..MaxOps}
    /\ objective \in (IF Len(heap) = Len(LeafNodes) THEN DOMAIN heap ELSE {Len(heap)})
    /\ fixed_obj = 0 /\ fixed_set = {} /\ call_val = NoParams
    /\ val \in [Var -> Val]
    /\ pc = "expr_ready"
    /\ error = "none" /\ errSite = "none"
    /\ cons_vars = <<>> /\ constraints = <<>>
    /\ solverCalls = 0 /\ solves_done = 0
    /\ x_vars = {} /\ y_vars = {} /\ min_vars = {} /\ max_vars = {} /\ objVars = {}
    /\ IdleSplit
    /\ max_iters = 0 /\ alpha = 0 /\ eps = 0
    /\ k = 0 /\ min_vars_hist = <<>> /\ max_vars_hist = <<>> /\ plot_array = <<>>
    /\ exit = "running"
    /\ param = NoParams /\ center = NoParams /\ weight = 0 /\ constr = <<>>
    /\ status = "none" /\ printed = FALSE
    /\ max_vars_pre_validation = NoParams /\ min_vars_pre_validation = NoParams
    /\ IdleParser

NextExpr ==
    \/ FixVarsInExpr
    \/ WriteValues

SpecExpr == InitExpr /\ [][NextExpr]_vars

\* ------------------------------------------- MinimizeMaximize and Parser

\* the objects passed as expr: cvxpy expressions, scalar or not, a Python number,
\* and an object of another type
ExprInputs ==
    {[type |-> "Constant", name |-> "const", scalar |-> b] : b \in BOOLEAN}
    \cup {[type |-> "Variable", name |-> v, scalar |-> b] : v \in Var, b \in BOOLEAN}
    \cup {[type |-> "Atom", name |-> "atom", scalar |-> b] : b \in BOOLEAN}
    \cup {[type |-> "float", name |-> "number", scalar |-> TRUE],
          [type |-> "str", name |-> "text", scalar |-> TRUE]}

\* the values of minimization_vars and maximization_vars: None, or a collection
VarArgs == {NotGiven} \cup {[given |-> TRUE, vars |-> S] : S \in SUBSET Var}

IsExpression(e) == e.type \in {"Constant", "Variable", "Atom"}

\* lines 88-94: the exception _validate_arguments raises, if any
ValidateArguments(e) ==
    IF IsExpression(e) THEN (IF e.scalar THEN "none" ELSE "AssertionError")
    ELSE IF e.type = "float" THEN "none"
    ELSE "TypeError"

\* KRepresentation.constant_repr of dspp.nemirovski, known by its call only
constant_repr(e) ==
    [builder |-> "constant_repr", f |-> e.name, t |-> "none", x |-> "none",
     y |-> "none", constraints |-> <<>>]

\* K_repr_by of dspp.nemirovski, known by its call only
K_repr_by(e) ==
    [builder |-> "K_repr_by", f |-> "none", t |-> "none", x |-> "none",
     y |-> e.name, constraints |-> <<>>]

\* lines 46-52: a minimization variable is its own convex representation
ConvexRepr(e) ==
    [builder |-> "KRepresentation", f |-> "Constant(0)", t |-> e.name,
     x |-> "Constant(0)", y |-> "Constant(0)", constraints |-> <<>>]

\* a Variable of neither set is taken for a minimization variable
ParseVariableGuessConvex(e) ==
    IF ~e.scalar THEN [err |-> "AssertionError", repr |-> NoRepr]
    ELSE IF e.name \in concave_vars /\ e.name \notin convex_vars
         THEN [err |-> "none", repr |-> K_repr_by(e)]
         ELSE [err |-> "none", repr |-> ConvexRepr(e)]

\* lines 43-59: the Variable case of parse_expr
ParseVariable(e) ==
    IF ~e.scalar THEN [err |-> "AssertionError", repr |-> NoRepr]
    ELSE IF e.name \in convex_vars THEN [err |-> "none", repr |-> ConvexRepr(e)]
    ELSE IF e.name \in concave_vars THEN [err |-> "none", repr |-> K_repr_by(e)]
    ELSE [err |-> "AffineVariableError", repr |-> NoRepr]

\* lines 37-61
parse_expr(e) ==
    IF e.type = "Constant"
    THEN (IF e.scalar THEN [err |-> "none", repr |-> constant_repr(e)]
          ELSE [err |-> "AssertionError", repr |-> NoRepr])
    ELSE IF e.type = "float" THEN [err |-> "none", repr |-> constant_repr(e)]
    ELSE IF e.type = "Variable" THEN ParseVariable(e)
    ELSE [err |-> "TypeError", repr |-> NoRepr]

otherVars == <<cons_vars, min_vars, max_vars, objVars, solves_done, constraints,
               splitVars, solveVars, solverCalls, exprVars>>

\* line 68
MMValidate ==
    /\ pc = "mm_start"
    /\ IF ValidateArguments(expr) = "none"
       THEN pc' = "mm_sets" /\ NoRaise
       ELSE Raise(ValidateArguments(expr), "validate_arguments")
    /\ UNCHANGED <<entry, x_vars, y_vars, parserVars, otherVars>>

\* lines 70-80 and 15-20: the two sets, and the Parser built on them
MMMakeParser ==
    /\ pc = "mm_sets"
    /\ convex_vars' = minimization_vars.vars
    /\ concave_vars' = maximization_vars.vars
    /\ affine_vars' = {}
    /\ pc' = "mm_parse"
    /\ NoRaise
    /\ UNCHANGED <<entry, x_vars, y_vars, expr, minimization_vars, maximization_vars,
                   K_repr, otherVars>>

\* line 82
MMParse ==
    /\ pc = "mm_parse"
    /\ LET r == parse_expr(expr)
       IN IF r.err = "none"
          THEN K_repr' = r.repr /\ pc' = "mm_vars" /\ NoRaise
          ELSE Raise(r.err, "parse_expr") /\ UNCHANGED K_repr
    /\ UNCHANGED <<entry, x_vars, y_vars, expr, minimization_vars, maximization_vars,
                   convex_vars, concave_vars, affine_vars, otherVars>>

\* lines 83-85 and 22-30
MMReadVars ==
    /\ pc = "mm_vars"
    /\ IF affine_vars # {}
       THEN Raise("AssertionError", "convex_vars") /\ UNCHANGED <<x_vars, y_vars>>
       ELSE /\ x_vars' = convex_vars
            /\ y_vars' = concave_vars
            /\ IF ValidateArguments(expr) = "none"
               THEN pc' = "mm_done" /\ NoRaise
               ELSE Raise(ValidateArguments(expr), "validate_arguments")
    /\ UNCHANGED <<entry, parserVars, otherVars>>

\* MinimizeMaximize(expr, minimization_vars, maximization_vars): line 66
InitParser ==
    /\ entry = "MinimizeMaximize"
    /\ expr \in ExprInputs
    /\ minimization_vars \in VarArgs
    /\ maximization_vars \in VarArgs
    /\ convex_vars = {} /\ concave_vars = {} /\ affine_vars = {} /\ K_repr = NoRepr
    /\ pc = "mm_start"
    /\ error = "none" /\ errSite = "none"
    /\ cons_vars = <<>> /\ constraints = <<>>
    /\ solverCalls = 0 /\ solves_done = 0
    /\ x_vars = {} /\ y_vars = {} /\ min_vars = {} /\ max_vars = {} /\ objVars = {}
    /\ IdleSplit
    /\ IdleSolve
    /\ IdleExpr

NextParser ==
    \/ MMValidate
    \/ MMMakeParser
    \/ MMParse
    \/ MMReadVars

SpecParser == InitParser /\ [][NextParser]_vars

\* ------------------------------------------------------------------ SpecSplit
\* SaddleProblem._split_constraints alone (lines 121-146), run to its return or
\* its raise: the interpreter keeps executing the routine once it is called, so
\* its steps are weakly fair.

InitSplit ==
    /\ Init
    /\ entry = "SaddleProblem"

NextSplit ==
    \/ SplitStart
    \/ SplitWhile
    \/ SplitFor
    \/ SplitPassEnd
    \/ SplitReturn

SpecSplit == InitSplit /\ [][NextSplit]_vars /\ WF_vars(NextSplit)

\* ------------------------------------------------------------------ claims

InSolve == entry = "SaddlePointProblem"

MixedIn(mins, maxs) ==
    \E i \in DOMAIN cons_vars :
        cons_vars[i] \cap mins # {} /\ cons_vars[i] \cap maxs # {}

SplitSites == {"split_for", "split_pass_end", "split_return"}

LoopPcs == {"max_step", "min_step", "check"}

AfterInitPcs == {"alloc", "max_step", "min_step", "check", "finalize",
                 "validate_max", "validate_min", "done"}

Count(seq, c) == Cardinality({j \in DOMAIN seq : seq[j] = c})

\* every snapshot recorded so far equals the first one
Stationary ==
    /\ \A v \in DOMAIN min_vars_hist :
          \A i \in DOMAIN min_vars_hist[v] : min_vars_hist[v][i] = min_vars_hist[v][1]
    /\ \A v \in DOMAIN max_vars_hist :
          \A i \in DOMAIN max_vars_hist[v] : max_vars_hist[v][i] = max_vars_hist[v][1]

\* C1: whenever some constraint refers to a variable of the minimizer set and to a
\* variable of the maximizer set, no numeric solve has run: SaddleProblem construction
\* does not get past _split_constraints, and SaddlePointProblem.solve does not get past
\* the first fix_vars call, where it raises.
C1_MixedRaisesBeforeAnySolve ==
    /\ (entry = "SaddleProblem" /\ MixedIn(x_vars, y_vars)) =>
          /\ solverCalls = 0
          /\ pc \notin {"split_done", "constructed", "solved"}
          /\ (pc = "raised" => errSite \in SplitSites)
    /\ (InSolve /\ MixedIn(min_vars, max_vars)) =>
          /\ solverCalls = 0
          /\ pc \in {"ready", "solve_entry", "init_min", "raised"}
          /\ (pc = "raised" => errSite = "fix_vars")

\* C2: when _split_constraints has returned, every input constraint is in exactly one
\* of the two lists, the lengths add up to the input count, every x-constraint refers
\* to a minimizer variable and to no maximizer variable, and every y-constraint refers
\* to a maximizer variable and to no minimizer variable.
C2_SplitIsPartition ==
    pc \in {"split_done", "constructed", "solved"} =>
        /\ Len(x_constraints) + Len(y_constraints) = Len(cons_vars)
        /\ \A i \in DOMAIN cons_vars :
              Count(x_constraints, i) + Count(y_constraints, i) = 1
        /\ \A j \in DOMAIN x_constraints :
              /\ cons_vars[x_constraints[j]] \cap x_vars # {}
              /\ cons_vars[x_constraints[j]] \cap y_vars = {}
        /\ \A j \in DOMAIN y_constraints :
              /\ cons_vars[y_constraints[j]] \cap y_vars # {}
              /\ cons_vars[y_constraints[j]] \cap x_vars = {}

C2_Witness ==
    /\ pc = "split_done"
    /\ Len(x_constraints) >= 1
    /\ Len(y_constraints) >= 1

\* C3: once a feasibility solve or a best-response solve has returned a status other
\* than optimal, the solve has aborted with an AssertionError and nothing further
\* can happen: no solver call, no retry, no iteration, finalization or validation.
C3_NonOptimalAborts ==
    (InSolve /\ status \notin {"none", "optimal"}) =>
        /\ pc = "raised"
        /\ error = "AssertionError"
        /\ ~ENABLED Next

C3_Witness ==
    /\ pc = "raised"
    /\ status = "infeasible"
    /\ errSite = "min_step"
    /\ k = 1
    /\ solverCalls = 6

\* C4: when solve has returned, every minimizer and every maximizer variable holds
\* the arithmetic mean of its history, which has one snapshot per executed iteration.
C4_FinalValuesAreAverages ==
    pc = "done" =>
        /\ \A v \in min_vars :
              /\ Len(min_vars_hist[v]) = k + 1
              /\ val[v] = Mean(min_vars_hist[v])
        /\ \A v \in max_vars :
              /\ Len(max_vars_hist[v]) = k + 1
              /\ val[v] = Mean(max_vars_hist[v])

C4_Witness ==
    /\ pc = "done"
    /\ \E v \in min_vars : val[v] # Last(min_vars_hist[v])
    /\ \E v \in max_vars : val[v] # Last(max_vars_hist[v])

\* C5: once the loop has completed, the validation never makes the solve fail,
\* whatever the two validation re-solves return.
C5_ValidationNeverFails ==
    pc = "raised" => errSite \notin {"validate_max", "validate_min"}

\* C6: in iteration k the maximizer step comes first and its sub-problem holds the
\* minimizer values of the end of iteration k-1 (k > 0), which the maximizer step
\* leaves in place; the minimizer step comes second and its sub-problem holds the
\* maximizer values that the maximizer step of iteration k recorded.
C6_StepOrderAndFixedValues ==
    /\ (InSolve /\ pc = "min_step") =>
          /\ DOMAIN param = objVars \cap min_vars
          /\ \A v \in max_vars : Len(max_vars_hist[v]) = k + 1
          /\ k > 0 => \A v \in min_vars : Len(min_vars_hist[v]) = k
          /\ \A v \in DOMAIN param :
                /\ param[v] = val[v]
                /\ k > 0 => param[v] = Last(min_vars_hist[v])
    /\ (InSolve /\ pc = "check") =>
          /\ DOMAIN param = objVars \cap max_vars
          /\ \A v \in min_vars : Len(min_vars_hist[v]) = k + 1
          /\ \A v \in max_vars : Len(max_vars_hist[v]) = k + 1
          /\ \A v \in DOMAIN param : param[v] = max_vars_hist[v][k + 1]

C6_Witness ==
    /\ pc = "check"
    /\ k = 1
    /\ \E v \in DOMAIN param : param[v] # max_vars_hist[v][1]
    /\ \E v \in min_vars \cap objVars : min_vars_hist[v][2] # min_vars_hist[v][1]

\* C7 as stated: the weight of the proximal terms of both steps is the alpha the
\* caller passed, that is, the local alpha keeps the value bound at the call until
\* the steps read it, and the proximal centre of a free variable is the value it
\* held when the sub-problem was built.
C7_ProxWeightIsCallerAlpha ==
    [][/\ pc = "solve_entry" => alpha' = alpha
       /\ (pc \in {"max_step", "min_step"} /\ pc' # "raised") =>
             /\ weight' = alpha
             /\ \A v \in DOMAIN center' : center'[v] = val[v]]_vars

\* C8 as stated: with stationary iterates, max_iters >= 3 and optimal solves, the
\* loop ends by the stopping test no later than iteration k = 2.
C8_StationaryStopsByTwo ==
    (InSolve /\ max_iters >= 3 /\ Stationary /\ status = "optimal") =>
        /\ k <= 2
        /\ exit # "exhausted"
        /\ exit = "break" => k = 2
        /\ ~(pc = "raised" /\ errSite = "plot_array")

\* C9 as stated: when every sub-solve is optimal, the solve runs at most max_iters
\* iterations and raises no error on its way to finalization and validation.
C9_OptimalRunsRaiseNothing ==
    InSolve =>
        /\ pc \in LoopPcs => k < max_iters
        /\ (pc = "raised" /\ errSite # "fix_vars") => status # "optimal"

\* the raise sites that follow a completed initialize_variables
AfterInitSites == {"max_step", "min_step", "plot_array", "validate_max", "validate_min"}

\* C10: from the end of initialize_variables on, at every later step of the solve
\* (the step at which a sub-solve fails and the solve aborts included) and after
\* solve returns, every variable of min_vars and max_vars holds a defined value,
\* also one that is in neither the objective nor a constraint.
C10_DeclaredVarsDefined ==
    (InSolve /\ (pc \in AfterInitPcs \/ (pc = "raised" /\ errSite \in AfterInitSites))) =>
        \A v \in min_vars \cup max_vars : val[v] # None

\* C11 as stated: a SaddlePointProblem whose min_vars and max_vars share a variable
\* is rejected before any numeric solve: no solver call has run and the solve has not
\* got past the first fix_vars call.
C11_OverlapRejectedBeforeAnySolve ==
    (InSolve /\ min_vars \cap max_vars # {}) =>
        /\ solverCalls = 0
        /\ pc \in {"ready", "solve_entry", "init_min", "raised"}

\* some constraint refers to no variable of either set
OrphanIn(mins, maxs) ==
    \E i \in DOMAIN cons_vars : cons_vars[i] \cap (mins \cup maxs) = {}

\* the first constraint, in list order, on which fix_vars(max_vars) raises
FirstFatal ==
    CHOOSE i \in DOMAIN cons_vars :
        /\ FixCase(cons_vars[i], max_vars) \in {"assert", "value"}
        /\ \A j \in 1..(i - 1) : FixCase(cons_vars[j], max_vars) \notin {"assert", "value"}

\* C12 as stated: with a constraint that refers to no variable of either set in the
\* list, _split_constraints raises ValueError and the first fix_vars call raises
\* ValueError, and no numeric solve has run.
C12_OrphanRaisesValueError ==
    /\ (entry = "SaddleProblem" /\ OrphanIn(x_vars, y_vars)) =>
          /\ solverCalls = 0
          /\ pc \notin {"split_done", "constructed", "solved"}
          /\ (pc = "raised" => error = "ValueError")
    /\ (InSolve /\ OrphanIn(min_vars, max_vars)) =>
          /\ solverCalls = 0
          /\ pc \in {"ready", "solve_entry", "init_min", "raised"}
          /\ (pc = "raised" => (error = "ValueError" /\ errSite = "fix_vars"))

\* C12 as amended: such a constraint is fatal before any numeric solve.
\* _split_constraints never returns: it raises ValueError at the end of a pass, unless
\* the list also holds a constraint that refers to both sets, on which the assertion
\* of the for loop raises first.  The first fix_vars call raises: ValueError on the
\* orphan constraint, unless an earlier constraint of the list fails its assertion.
C12_OrphanIsFatal ==
    /\ (entry = "SaddleProblem" /\ OrphanIn(x_vars, y_vars)) =>
          /\ solverCalls = 0
          /\ pc \notin {"split_return", "split_done", "constructed", "solved"}
          /\ (pc = "raised" =>
                 IF MixedIn(x_vars, y_vars)
                 THEN error = "AssertionError" /\ errSite = "split_for"
                 ELSE error = "ValueError" /\ errSite = "split_pass_end")
    /\ (InSolve /\ OrphanIn(min_vars, max_vars)) =>
          /\ solverCalls = 0
          /\ pc \in {"ready", "solve_entry", "init_min", "raised"}
          /\ (pc = "raised" =>
                 /\ errSite = "fix_vars"
                 /\ error = (IF FixCase(cons_vars[FirstFatal], max_vars) = "value"
                             THEN "ValueError" ELSE "AssertionError"))

C12_Witness ==
    /\ InSolve
    /\ pc = "raised"
    /\ error = "ValueError"
    /\ errSite = "fix_vars"
    /\ Len(cons_vars) = 2
    /\ cons_vars[1] \cap min_vars # {}
    /\ cons_vars[2] \cap (min_vars \cup max_vars) = {}
    /\ cons_vars[2] # {}

\* the sites of the numeric solves
SolveSites == {"init_min", "init_max", "max_step", "min_step", "validate_max",
               "validate_min"}

\* C14 as stated: the step in which a sub-solve returns non-optimal and the solve
\* aborts changes no variable value, and the averages of the finalization have not
\* been written before it.
C14_AbortKeepsLastOptimalValues ==
    [][(InSolve /\ pc' = "raised" /\ errSite' \in SolveSites) =>
          /\ val' = val
          /\ exit = "running"]_vars

PostLoopPcs == {"finalize", "validate_max", "validate_min", "done"}

\* the aggregate point of iteration j: the mean of the first j + 1 snapshots of every
\* minimizer variable, then of every maximizer variable
AggregateAt(j) ==
    LET mins == ListOf(min_vars)
        maxs == ListOf(max_vars)
    IN [i \in 1..Len(mins) |-> Mean(SubSeq(min_vars_hist[mins[i]], 1, j + 1))]
       \o [i \in 1..Len(maxs) |-> Mean(SubSeq(max_vars_hist[maxs[i]], 1, j + 1))]

\* the distance the stopping test of iteration j measures
Delta(j) == InfNorm(AggregateAt(j - 1), AggregateAt(j))

\* C16: the stopping test is applied in the iterations k >= 2.  The loop has stopped
\* by the test at iteration k exactly when the infinity norm of the difference of the
\* aggregate points of iterations k-1 and k is at most eps: a loop that went on after
\* a tested iteration, or ran out of iterations at one, measured more than eps there.
\* (Stated for the states that follow the test: the start of the next iteration and
\* the states after the loop.)
C16_StopsIffConsecutiveAggregatesClose ==
    InSolve =>
        /\ (pc \in PostLoopPcs /\ exit = "break") =>
              /\ TestApplied(k)
              /\ Delta(k) <= eps
              /\ PyRow(plot_array, k - 2) = AggregateAt(k - 1)
              /\ PyRow(plot_array, k - 1) = AggregateAt(k)
        /\ (pc \in PostLoopPcs /\ exit = "exhausted" /\ TestApplied(k)) =>
              Delta(k) > eps
        /\ (pc \in {"max_step", "finalize"} /\ k > 2) =>
              \A j \in 1..(k - 1) : TestApplied(j) => Delta(j) > eps

\* the aggregate points of iterations 0 and 1 are further apart than a positive
\* tolerance, those of iterations 1 and 2 differ and are within it: the loop stops
\* at the first test
C16_Witness ==
    /\ pc = "finalize"
    /\ exit = "break"
    /\ k = 2
    /\ eps > 0
    /\ Delta(2) > 0
    /\ Delta(2) <= eps
    /\ Delta(1) > eps

\* C17 as stated: two aggregate points exist at the end of iteration 1 and the test
\* is applied there, so a run whose aggregate points of iterations 0 and 1 differ by
\* at most eps has stopped at k = 1.
C17_StopsAtOneWhenClose ==
    (InSolve /\ pc \in PostLoopPcs /\ k >= 1 /\ Delta(1) <= eps) =>
        (k = 1 /\ exit = "break")

\* C17 as amended: an aggregate point is computed in every iteration k >= 1, none in
\* iteration 0: row k-1 of plot_array holds the aggregate point of iteration k and
\* the rows of the iterations not yet run hold zeros.  The test is applied from
\* iteration 2 on: no run stops by it before k = 2, and a run whose aggregate points
\* of iterations 1 and 2 differ by at most eps stops at k = 2.  (The rows are stated
\* for the states that follow the stopping criterion: the start of the next iteration
\* and the finalization.)
C17_AggregatesFromOneTestFromTwo ==
    InSolve =>
        /\ pc \in {"max_step", "finalize"} =>
              LET written == IF pc = "finalize" THEN k ELSE k - 1
              IN /\ Len(plot_array) = max_iters - 1
                 /\ \A r \in DOMAIN plot_array :
                       IF r <= written
                       THEN plot_array[r] = AggregateAt(r)
                       ELSE \A c \in DOMAIN plot_array[r] : plot_array[r][c] = 0
        /\ exit = "break" => k >= 2
        /\ (k >= 2 /\ (pc = "finalize" \/ (pc = "max_step" /\ k >= 3))
               /\ Delta(2) <= eps) =>
              (k = 2 /\ exit = "break")

C17_Witness ==
    /\ pc = "finalize"
    /\ exit = "break"
    /\ k = 2
    /\ Delta(1) = 0
    /\ Delta(2) = 0
    /\ \E c \in DOMAIN plot_array[1] : plot_array[1][c] # 0

\* every constraint refers to variables of exactly one of the two sets
OneSided ==
    \A i \in DOMAIN cons_vars :
        (cons_vars[i] \cap min_vars # {}) # (cons_vars[i] \cap max_vars # {})

\* the constraints that refer to a variable outside fixed_vars, in input order
FreeSideOf(fixed_vars) ==
    SelectSeq(constraints, LAMBDA c : cons_vars[c] \cap NonFixed(fixed_vars) # {})

\* C20: when every constraint refers to exactly one side, fix_vars(fixed) raises
\* nothing and returns exactly the constraints that refer to a non-fixed variable, in
\* input order, none of which refers to a fixed variable; fix_vars(min_vars) and
\* fix_vars(max_vars) return disjoint lists that together hold every constraint; the
\* maximizer sub-problem carries the first list and the minimizer sub-problem the
\* second.
C20_FixVarsReturnsFreeSide ==
    (InSolve /\ pc \in {"ready", "min_step", "check"} /\ OneSided) =>
        LET max_constr == fix_vars(min_vars)
            min_constr == fix_vars(max_vars)
        IN /\ max_constr.err = "none"
           /\ min_constr.err = "none"
           /\ max_constr.relevant = FreeSideOf(min_vars)
           /\ min_constr.relevant = FreeSideOf(max_vars)
           /\ \A j \in DOMAIN max_constr.relevant :
                 cons_vars[max_constr.relevant[j]] \cap min_vars = {}
           /\ \A j \in DOMAIN min_constr.relevant :
                 cons_vars[min_constr.relevant[j]] \cap max_vars = {}
           /\ \A i \in DOMAIN constraints :
                 Count(max_constr.relevant, i) + Count(min_constr.relevant, i) = 1
           /\ pc = "min_step" => constr = max_constr.relevant
           /\ pc = "check" => constr = min_constr.relevant

C20_Witness ==
    /\ InSolve
    /\ OneSided
    /\ pc = "check"
    /\ k = 1
    /\ Len(constr) = 1
    /\ Len(fix_vars(min_vars).relevant) = 1
    /\ min_vars \cap max_vars = {}

\* the history of v as far as it exists
Prev(hist, v) == IF v \in DOMAIN hist THEN hist[v] ELSE <<>>

\* C18: no history exists when a solve begins, also on an object that was solved
\* before; the maximizer step of iteration k appends the value each maximizer variable
\* holds after it to that variable's history, and the minimizer step does the same for
\* the minimizer variables, so that at the end of iteration k every history holds k+1
\* snapshots, the i-th being the value after the variable's step of iteration i; no
\* other step of the solve touches a history.
C18_HistoriesPerSolve ==
    [][InSolve =>
         /\ pc' = "solve_entry" => (min_vars_hist' = <<>> /\ max_vars_hist' = <<>>)
         /\ pc' = "min_step" =>
               \A v \in max_vars :
                   /\ max_vars_hist'[v] = Append(Prev(max_vars_hist, v), val'[v])
                   /\ Len(max_vars_hist'[v]) = k' + 1
         /\ pc' = "check" =>
               /\ \A v \in min_vars :
                     /\ min_vars_hist'[v] = Append(Prev(min_vars_hist, v), val'[v])
                     /\ Len(min_vars_hist'[v]) = k' + 1
               /\ \A v \in max_vars : Len(max_vars_hist'[v]) = k' + 1
         /\ pc' \notin {"min_step", "ready"} => max_vars_hist' = max_vars_hist
         /\ pc' \notin {"check", "ready"} => min_vars_hist' = min_vars_hist]_vars

C18_Witness ==
    /\ solves_done = 1
    /\ pc = "check"
    /\ k = 2
    /\ min_vars_hist["x"][1] # min_vars_hist["x"][2]
    /\ min_vars_hist["x"][2] # min_vars_hist["x"][3]
    /\ max_vars_hist["y"][1] # max_vars_hist["y"][2]

\* the tree below object n: the object without its child list, and the trees of its
\* children in order
RECURSIVE Tree(_, _)
Tree(h, n) ==
    [node |-> [h[n] EXCEPT !.args = <<>>],
     kids |-> [i \in DOMAIN h[n].args |-> Tree(h, h[n].args[i])]]

\* the tree below n with every Variable leaf of S replaced by a Parameter of the
\* Variable's shape and attributes that holds the Variable's value in values
RECURSIVE Substituted(_, _, _, _)
Substituted(h, n, S, values) ==
    IF h[n].kind = "Variable" /\ h[n].name \in S
    THEN [node |-> [kind |-> "Parameter", name |-> "param", shape |-> h[n].shape,
                    attributes |-> h[n].attributes, value |-> values[h[n].name],
                    args |-> <<>>],
          kids |-> <<>>]
    ELSE [node |-> [h[n] EXCEPT !.args = <<>>],
          kids |-> [i \in DOMAIN h[n].args |-> Substituted(h, h[n].args[i], S, values)]]

\* the Variables that are leaves of the tree below n
RECURSIVE LeafVars(_, _)
LeafVars(h, n) ==
    IF h[n].args = <<>>
    THEN (IF h[n].kind = "Variable" THEN {h[n].name} ELSE {})
    ELSE UNION {LeafVars(h, h[n].args[i]) : i \in DOMAIN h[n].args}

FixedPcs == {"expr_fixed", "expr_written", "expr_refixed"}

\* C13: the tree returned by fix_vars_in_expr(expr, S) has no Variable of S among its
\* leaves; it is the tree of expr with each such leaf replaced by a Parameter of the
\* same shape and attributes holding the value the Variable had when the call was
\* made, also after the Variable's value has changed, and every other leaf kept.
C13_FixedTreeHasNoFixedLeaf ==
    pc \in FixedPcs =>
        /\ LeafVars(heap, fixed_obj) \cap fixed_set = {}
        /\ LeafVars(heap, fixed_obj) = LeafVars(heap, objective) \ fixed_set
        /\ Tree(heap, fixed_obj) = Substituted(heap, objective, fixed_set, call_val)

C13_Witness ==
    /\ pc = "expr_written"
    /\ heap[objective].kind = "Atom"
    /\ fixed_set = {"y"}
    /\ LeafVars(heap, objective) = {"x", "y"}
    /\ val["y"] # call_val["y"]

\* C19: a call of fix_vars_in_expr changes no object that existed before it: every
\* node keeps its kind, its fields and its child list, and the objective stays the
\* same object; new objects are only added.  A second call on the objective, after
\* the values have changed, therefore returns the substitution of the unfixed tree.
C19_InputTreeNotMutated ==
    [][/\ objective' = objective
       /\ \A n \in DOMAIN heap : n \in DOMAIN heap' /\ heap'[n] = heap[n]
       /\ pc' = "expr_refixed" =>
             Tree(heap', fixed_obj') = Substituted(heap, objective, fixed_set', val)]_vars

C19_Witness ==
    /\ pc = "expr_refixed"
    /\ heap[objective].kind = "Atom"
    /\ fixed_set = {"x"}
    /\ LeafVars(heap, objective) = {"x", "y"}
    /\ LeafVars(heap, fixed_obj) = {"y"}
    /\ Len(heap) > Len(LeafNodes) + MaxOps + 1

\* C15: MinimizeMaximize on a scalar Variable that is in neither set never gets a
\* representation: parse_expr raises AffineVariableError and the construction stops
\* there.  A Variable of the minimization set is passed through as its own convex
\* representation, and a Variable of the maximization set only is handed to K_repr_by.
C15_UntaggedVariableRaises ==
    (entry = "MinimizeMaximize" /\ expr.type = "Variable" /\ expr.scalar) =>
        LET mins == minimization_vars.vars
            maxs == maximization_vars.vars
            parsed == pc \in {"mm_vars", "mm_done"}
        IN /\ expr.name \notin mins \cup maxs =>
                 /\ K_repr = NoRepr
                 /\ pc \in {"mm_start", "mm_sets", "mm_parse", "raised"}
                 /\ pc = "raised" =>
                       (error = "AffineVariableError" /\ errSite = "parse_expr")
           /\ expr.name \in mins \cup maxs => pc # "raised"
           /\ (parsed /\ expr.name \in mins) =>
                 /\ K_repr.builder = "KRepresentation"
                 /\ K_repr.t = expr.name
                 /\ K_repr.constraints = <<>>
           /\ (parsed /\ expr.name \in maxs \ mins) =>
                 (K_repr.builder = "K_repr_by" /\ K_repr.y = expr.name)

C15_Witness ==
    /\ entry = "MinimizeMaximize"
    /\ pc = "raised"
    /\ error = "AffineVariableError"
    /\ expr.name = "x"
    /\ ~minimization_vars.given
    /\ maximization_vars.vars = {"y"}

\* C21: the repeated-pass loop of _split_constraints terminates for every finite
\* input list.  A pass that reaches its end either has removed at least one
\* constraint from the work list and goes back to the while test, or raises
\* ValueError; at most n + 1 passes are begun for a list of n constraints; and
\* every run of the routine ends, returning the partition or raising.
SplitEnded == pc \in {"split_done", "raised"}

C21_SplitTerminates ==
    /\ [](passes <= Len(cons_vars) + 1)
    /\ [][pc = "split_pass_end" =>
             \/ pc' = "split_while" /\ Len(constraints') < con_len
             \/ pc' = "raised" /\ error' = "ValueError"]_vars
    /\ <>SplitEnded

\* a first pass removed a constraint, a second pass removed none and raised
C21_Witness ==
    /\ pc = "raised"
    /\ error = "ValueError"
    /\ errSite = "split_pass_end"
    /\ passes = 2
    /\ Len(constraints) < Len(cons_vars)
    /\ constraints # <<>>

\* C22: in a run of _solve_DR whose sub-solves are all OPTIMAL (a run that reaches
\* the stopping criterion or the finalization: any other status aborts before), no
\* access is out of range or undefined.  When the criterion of an iteration k >= 1
\* is about to run, plot_array has max_iters - 1 rows and the row it writes, k - 1,
\* is one of 0..max_iters-2; when it also tests (k >= 2), the row it reads, k - 2,
\* is one of 0..max_iters-2, is the row iteration k - 1 wrote, and holds the
\* aggregate point of iteration k - 1.  When finalization runs, for every
\* max_iters >= 1, each history list has a non-empty entry for every variable of its
\* side.
HistDefined(hist, side_vars) ==
    /\ DOMAIN hist = side_vars
    /\ \A v \in side_vars : Len(hist[v]) = k + 1

C22_AccessesInRangeAndDefined ==
    InSolve =>
        /\ (pc = "check" /\ k > 0) =>
              /\ Len(plot_array) = max_iters - 1
              /\ k - 1 \in 0..(max_iters - 2)
              /\ TestApplied(k) =>
                    /\ k - 2 \in 0..(max_iters - 2)
                    /\ k - 1 > 0
                    /\ PyRow(plot_array, k - 2) = AggregateAt(k - 1)
        /\ pc \in {"check", "finalize"} =>
              /\ max_iters >= 1
              /\ HistDefined(min_vars_hist, min_vars)
              /\ HistDefined(max_vars_hist, max_vars)

\* the loop ran out of iterations after writing the last row of plot_array and
\* reading the one before it; finalization is about to read the histories
C22_Witness ==
    /\ InSolve
    /\ pc = "finalize"
    /\ exit = "exhausted"
    /\ max_iters = MaxIters
    /\ k = max_iters - 1
    /\ TestApplied(k)
    /\ PyRow(plot_array, k - 1) = AggregateAt(k)

====
